---- MODULE Spec2Model ----
(***************************************************************************)
(* Text post-processing pipeline of AIService (services/ai_service.py):    *)
(* _fix_common_errors -> _format_section_headers -> _fix_bullet_format ->  *)
(* _add_signature, as composed in extract_text_from_base64_images.         *)
(*                                                                         *)
(* A text is a sequence of characters; a character is a one-character      *)
(* string.  The bullet glyph (code point 2022), which a module cannot      *)
(* spell, is the character written "U+2022".                               *)
(*                                                                         *)
(* Four specifications, the first three over the operators of the         *)
(* pipeline:                                                               *)
(*   Spec            one text going through the four calls                 *)
(*   ApiSpec         the note endpoints of api/notes.py over the notes     *)
(*                   table and the uploads directory                       *)
(*   ConcurrentSpec  several invocations of the pipeline, interleaved      *)
(*   AuthSpec        the Microsoft tokens of services/                     *)
(*                   microsoft_auth_service.py and the drafts endpoint     *)
(***************************************************************************)
EXTENDS Naturals, Integers, Sequences, FiniteSets, TLC

VARIABLES raw, text, prev, stage, pc, outs, notes, uploads, request, response, calls,
          now, user_auth, issued, auth

vars == <<raw, text, prev, stage, pc, outs, notes, uploads, request, response, calls,
          now, user_auth, issued, auth>>

\* the locals of one pass of the pipeline
pipelineVars == <<raw, text, prev, stage, pc, outs>>

\* the notes table, the uploads directory, the last request and its response
apiVars == <<notes, uploads, request, response>>

\* the clock, the user_auth table, the number of tokens Microsoft has issued,
\* the last token operation and its outcome
authVars == <<now, user_auth, issued, auth>>

----------------------------------------------------------------------------
(* Characters and the character classes of Python's re module.             *)

UpperLetters ==
    <<"A","B","C","D","E","F","G","H","I","J","K","L","M",
      "N","O","P","Q","R","S","T","U","V","W","X","Y","Z">>

LowerLetters ==
    <<"a","b","c","d","e","f","g","h","i","j","k","l","m",
      "n","o","p","q","r","s","t","u","v","w","x","y","z">>

UpperSet == {UpperLetters[i] : i \in 1..26}

LowerSet == {LowerLetters[i] : i \in 1..26}

Digits == {"0","1","2","3","4","5","6","7","8","9"}

\* re.IGNORECASE folding of one character
LowerMap == [c \in UpperSet |-> LowerLetters[CHOOSE i \in 1..26 : UpperLetters[i] = c]]

Lower(c) == IF c \in UpperSet THEN LowerMap[c] ELSE c

\* [A-Z] under re.IGNORECASE
IsLetter(c) == c \in UpperSet \/ c \in LowerSet

\* \w, the class behind \b
IsWord(c) == IsLetter(c) \/ c \in Digits \/ c = "_"

\* \s, also the class str.rstrip() removes
Whitespace == {" ", "\t", "\n", "\r", "\f"}

IsSpace(c) == c \in Whitespace

\* [.\s]
IsSep(c) == c = "." \/ IsSpace(c)

BulletGlyph == "U+2022"

\* [-<glyph>]
IsMarker(c) == c = "-" \/ c = BulletGlyph

----------------------------------------------------------------------------
(* Literals of the source.                                                  *)

Attendees == <<"A","t","t","e","n","d","e","e","s">>

ActionItems == <<"A","c","t","i","o","n"," ","I","t","e","m","s">>

GeneralNotes == <<"G","e","n","e","r","a","l"," ","N","o","t","e","s">>

Personal == <<"P","e","r","s","o","n","a","l">>

section_headers == <<Attendees, ActionItems, GeneralNotes, Personal>>

Stars == <<"*","*">>

Michael == <<"M","i","c","h","a","e","l">>

SignatureWord == <<"s","i","g","n","a","t","u","r","e">>

MBL == <<"M","B","L">>

\* a bullet prefix with a single space after the hyphen
CanonicalBulletOneSpace == <<" ","-"," ">>

CanonicalBullet == <<" ","-"," "," ">>

NL == <<"\n">>

----------------------------------------------------------------------------
(* Matching helpers.                                                       *)

\* the literal lit occurs at position i of t, compared case-insensitively
MatchCI(t, i, lit) ==
    /\ i >= 1
    /\ i + Len(lit) - 1 <= Len(t)
    /\ \A j \in 1..Len(lit) : Lower(t[i + j - 1]) = Lower(lit[j])

\* the literal lit occurs at position i of t, compared exactly
MatchExact(t, i, lit) ==
    /\ i >= 1
    /\ i + Len(lit) - 1 <= Len(t)
    /\ \A j \in 1..Len(lit) : t[i + j - 1] = lit[j]

WordAt(t, i) == i >= 1 /\ i <= Len(t) /\ IsWord(t[i])

\* \b between positions i-1 and i
WordBoundary(t, i) == WordAt(t, i - 1) # WordAt(t, i)

\* first position at or after i that holds no [.\s] character (greedy [.\s]*)
SkipSeps(t, i) ==
    IF i > Len(t) THEN i
    ELSE CHOOSE j \in i..(Len(t) + 1) :
            /\ \A k \in i..(j - 1) : IsSep(t[k])
            /\ (j = Len(t) + 1 \/ ~IsSep(t[j]))

\* first position at or after i that holds no \s character (greedy \s*)
SkipSpace(t, i) ==
    IF i > Len(t) THEN i
    ELSE CHOOSE j \in i..(Len(t) + 1) :
            /\ \A k \in i..(j - 1) : IsSpace(t[k])
            /\ (j = Len(t) + 1 \/ ~IsSpace(t[j]))

\* str.rstrip(): the text up to its last non-whitespace character
RStrip(t) ==
    LET keep == CHOOSE n \in 0..Len(t) :
                    /\ \A k \in (n + 1)..Len(t) : IsSpace(t[k])
                    /\ (n = 0 \/ ~IsSpace(t[n]))
    IN  SubSeq(t, 1, keep)

\* str.endswith
EndsWith(t, suffix) ==
    Len(t) >= Len(suffix) /\ MatchExact(t, Len(t) - Len(suffix) + 1, suffix)

\* ^ under re.MULTILINE
AtLineStart(t, i) == i = 1 \/ (i >= 2 /\ i <= Len(t) + 1 /\ t[i - 1] = "\n")

\* $ under re.MULTILINE
AtLineEnd(t, i) == i = Len(t) + 1 \/ (i >= 1 /\ i <= Len(t) /\ t[i] = "\n")

----------------------------------------------------------------------------
(* re.sub: leftmost, non-overlapping replacement of every match.  A        *)
(* pattern is a record; MatchEnd gives the position just after the match   *)
(* that starts at i (0 when the pattern does not match there), Expand the  *)
(* text the replacement template produces for that match.                  *)

\* r'\bM[.\s]*xL\b'
MatchM_xL(t, i) ==
    LET j == SkipSeps(t, i + 1)
    IN  IF /\ MatchCI(t, i, <<"M">>)
           /\ WordBoundary(t, i)
           /\ MatchCI(t, j, <<"x","L">>)
           /\ WordBoundary(t, j + 2)
        THEN j + 2 ELSE 0

\* r'\bM[.\s]*x\s*L\b'
MatchM_x_L(t, i) ==
    LET j == SkipSeps(t, i + 1)
        k == SkipSpace(t, j + 1)
    IN  IF /\ MatchCI(t, i, <<"M">>)
           /\ WordBoundary(t, i)
           /\ MatchCI(t, j, <<"x">>)
           /\ MatchCI(t, k, <<"L">>)
           /\ WordBoundary(t, k + 1)
        THEN k + 1 ELSE 0

\* r'\b([A-Z])[.\s]*xL\b'
MatchAny_xL(t, i) ==
    LET j == SkipSeps(t, i + 1)
    IN  IF /\ i <= Len(t)
           /\ IsLetter(t[i])
           /\ WordBoundary(t, i)
           /\ MatchCI(t, j, <<"x","L">>)
           /\ WordBoundary(t, j + 2)
        THEN j + 2 ELSE 0

\* rf'^({header}):'
MatchLineColon(t, i, header) ==
    IF /\ AtLineStart(t, i)
       /\ MatchCI(t, i, header)
       /\ MatchExact(t, i + Len(header), <<":">>)
    THEN i + Len(header) + 1 ELSE 0

\* rf'^({header})$'
MatchLineAlone(t, i, header) ==
    IF /\ AtLineStart(t, i)
       /\ MatchCI(t, i, header)
       /\ AtLineEnd(t, i + Len(header))
    THEN i + Len(header) ELSE 0

\* rf'\n({header}):'
MatchNewlineColon(t, i, header) ==
    IF /\ MatchExact(t, i, NL)
       /\ MatchCI(t, i + 1, header)
       /\ MatchExact(t, i + 1 + Len(header), <<":">>)
    THEN i + Len(header) + 2 ELSE 0

\* rf'\n({header})\n'
MatchNewlineAlone(t, i, header) ==
    IF /\ MatchExact(t, i, NL)
       /\ MatchCI(t, i + 1, header)
       /\ MatchExact(t, i + 1 + Len(header), NL)
    THEN i + Len(header) + 2 ELSE 0

MatchEnd(pat, t, i) ==
    CASE pat.kind = "M_xL"         -> MatchM_xL(t, i)
      [] pat.kind = "M_x_L"        -> MatchM_x_L(t, i)
      [] pat.kind = "Any_xL"       -> MatchAny_xL(t, i)
      [] pat.kind = "LineColon"    -> MatchLineColon(t, i, pat.lit)
      [] pat.kind = "LineAlone"    -> MatchLineAlone(t, i, pat.lit)
      [] pat.kind = "NewlineColon" -> MatchNewlineColon(t, i, pat.lit)
      [] pat.kind = "NewlineAlone" -> MatchNewlineAlone(t, i, pat.lit)

\* replacement templates in which r'\1BL' leaves the artifact in place
ExpandKeepingArtifact(pat, t, i) ==
    CASE pat.kind \in {"M_xL", "M_x_L"} -> MBL
      [] pat.kind = "Any_xL" -> <<t[i], ".", "x", "L">>
      [] pat.kind \in {"LineColon", "LineAlone"} ->
            Stars \o SubSeq(t, i, i + Len(pat.lit) - 1) \o Stars
      [] pat.kind \in {"NewlineColon", "NewlineAlone"} ->
            Stars \o SubSeq(t, i + 1, i + Len(pat.lit)) \o Stars

\* the replacement templates 'MBL', r'\1BL' and rf'**\1**'
Expand(pat, t, i) ==
    CASE pat.kind \in {"M_xL", "M_x_L"} -> MBL
      [] pat.kind = "Any_xL" -> <<t[i], "B", "L">>
      [] pat.kind \in {"LineColon", "LineAlone"} ->
            Stars \o SubSeq(t, i, i + Len(pat.lit) - 1) \o Stars
      [] pat.kind \in {"NewlineColon", "NewlineAlone"} ->
            Stars \o SubSeq(t, i + 1, i + Len(pat.lit)) \o Stars

\* the leftmost position at or after i where pat matches, 0 when there is none
NextMatch(pat, t, i) ==
    IF \E j \in i..Len(t) : MatchEnd(pat, t, j) > 0
    THEN CHOOSE j \in i..Len(t) :
            /\ MatchEnd(pat, t, j) > 0
            /\ \A k \in i..(j - 1) : MatchEnd(pat, t, k) = 0
    ELSE 0

\* the text from position i on, with every match replaced: the scan copies
\* the characters up to the next match, emits its replacement and resumes
\* just after it
RECURSIVE ReSubFrom(_, _, _)
ReSubFrom(pat, t, i) ==
    LET j == NextMatch(pat, t, i)
    IN  IF j = 0 THEN SubSeq(t, i, Len(t))
        ELSE SubSeq(t, i, j - 1) \o Expand(pat, t, j)
                \o ReSubFrom(pat, t, MatchEnd(pat, t, j))

ReSub(pat, t) == ReSubFrom(pat, t, 1)

----------------------------------------------------------------------------
(* _fix_common_errors                                                      *)

patterns_to_fix ==
    << [kind |-> "M_xL",   lit |-> << >>],
       [kind |-> "M_x_L",  lit |-> << >>],
       [kind |-> "Any_xL", lit |-> << >>] >>

\* for pattern, replacement in pats: text = re.sub(...); the text after the
\* first k iterations (no pattern matches in an empty text)
RECURSIVE SubAll(_, _, _)
SubAll(pats, k, t) ==
    IF k = 0 THEN t
    ELSE LET u == SubAll(pats, k - 1, t)
         IN  IF u = << >> THEN u ELSE ReSub(pats[k], u)

FixCommonErrors(t) == SubAll(patterns_to_fix, Len(patterns_to_fix), t)

----------------------------------------------------------------------------
(* _format_section_headers                                                 *)

\* the four patterns with the two that begin with a newline tried first
HeaderPatternsNewlineFirst(header) ==
    << [kind |-> "NewlineColon", lit |-> header],
       [kind |-> "NewlineAlone", lit |-> header],
       [kind |-> "LineColon",    lit |-> header],
       [kind |-> "LineAlone",    lit |-> header] >>

HeaderPatterns(header) ==
    << [kind |-> "LineColon",    lit |-> header],
       [kind |-> "LineAlone",    lit |-> header],
       [kind |-> "NewlineColon", lit |-> header],
       [kind |-> "NewlineAlone", lit |-> header] >>

\* a guard that compares the case exactly
AlreadyWrappedExactCase(header, t) ==
    \E i \in 1..Len(t) : MatchExact(t, i, Stars \o header \o Stars)

\* a guard that never holds
AlreadyWrappedNever(header, t) == FALSE

\* re.search(rf'\*\*{header}\*\*', text, re.IGNORECASE | re.MULTILINE)
AlreadyWrapped(header, t) ==
    \E i \in 1..Len(t) : MatchCI(t, i, Stars \o header \o Stars)

\* the inner loop: each pattern is applied only if the guard still fails;
\* the text after the first k patterns (no pattern matches in an empty text)
RECURSIVE FormatHeader(_, _, _)
FormatHeader(header, k, t) ==
    IF k = 0 THEN t
    ELSE LET u == FormatHeader(header, k - 1, t)
         IN  IF u # << >> /\ ~AlreadyWrapped(header, u)
             THEN ReSub(HeaderPatterns(header)[k], u)
             ELSE u

\* the outer loop, for section_headers[h..last]
RECURSIVE FormatHeaders(_, _, _)
FormatHeaders(h, last, t) ==
    IF h > last THEN t
    ELSE LET u == FormatHeaders(h, last - 1, t)
         IN  IF u = << >> THEN u ELSE FormatHeader(section_headers[last], 4, u)

FormatSectionHeaders(t) == FormatHeaders(1, Len(section_headers), t)

----------------------------------------------------------------------------
(* _fix_bullet_format                                                      *)

\* the positions of the newline characters of t
NewlinePositions(t) == {i \in 1..Len(t) : t[i] = "\n"}

\* the position of the k-th newline of t; 0 for k = 0, Len(t) + 1 past the last
NewlineAt(t, k) ==
    IF k = 0 THEN 0
    ELSE IF k > Cardinality(NewlinePositions(t)) THEN Len(t) + 1
    ELSE CHOOSE p \in NewlinePositions(t) :
            Cardinality({q \in NewlinePositions(t) : q < p}) = k - 1

\* str.split('\n'): the text between consecutive newlines
SplitLines(t) ==
    [k \in 1..(Cardinality(NewlinePositions(t)) + 1) |->
        SubSeq(t, NewlineAt(t, k - 1) + 1, NewlineAt(t, k) - 1)]

\* '\n'.join(lines)
RECURSIVE JoinFrom(_, _)
JoinFrom(lines, k) ==
    IF k > Len(lines) THEN << >>
    ELSE IF k = Len(lines) THEN lines[k]
    ELSE lines[k] \o NL \o JoinFrom(lines, k + 1)

JoinLines(lines) == JoinFrom(lines, 1)

\* a pattern whose group 3 starts right after the marker: ^(\s*)([-<glyph>])(\s+.+)$
BulletContentStartAfterMarker(line) ==
    LET m == SkipSpace(line, 1)
    IN  IF m > Len(line) \/ ~IsMarker(line[m]) THEN 0
        ELSE IF m + 2 <= Len(line) /\ IsSpace(line[m + 1]) THEN m + 1
        ELSE 0

\* re.match(r'^(\s*)([-<glyph>])\s+(.+)$', line): the start of group 3, or 0.
\* (\s*) takes all leading whitespace; \s+ takes all whitespace after the
\* marker and gives the last one back to (.+) when nothing else follows.
BulletContentStart(line) ==
    LET m == SkipSpace(line, 1)
        c == SkipSpace(line, m + 1)
    IN  IF m > Len(line) \/ ~IsMarker(line[m]) THEN 0
        ELSE IF c = m + 1 THEN 0
        ELSE IF c <= Len(line) THEN c
        ELSE IF c - (m + 1) >= 2 THEN Len(line)
        ELSE 0

\* a rewrite that keeps the line from its marker on
FixBulletLineKeepMarker(line) ==
    LET c == BulletContentStart(line)
    IN  IF c > 0
        THEN CanonicalBullet \o SubSeq(line, SkipSpace(line, 1), Len(line))
        ELSE line

\* a rewrite that also trims the lines it does not rewrite
FixBulletLineTrimOthers(line) ==
    LET c == BulletContentStart(line)
    IN  IF c > 0
        THEN CanonicalBullet \o SubSeq(line, c, Len(line))
        ELSE RStrip(line)

\* a rewrite that also drops the indentation of the lines without a marker
FixBulletLineDroppingIndent(line) ==
    LET c == BulletContentStart(line)
    IN  IF c > 0
        THEN CanonicalBullet \o SubSeq(line, c, Len(line))
        ELSE SubSeq(line, SkipSpace(line, 1), Len(line))

FixBulletLine(line) ==
    LET c == BulletContentStart(line)
    IN  IF c > 0
        THEN CanonicalBullet \o SubSeq(line, c, Len(line))
        ELSE line

FixBulletFormat(t) ==
    LET lines == SplitLines(t)
    IN  JoinLines([k \in 1..Len(lines) |-> FixBulletLine(lines[k])])

----------------------------------------------------------------------------
(* _add_signature                                                          *)

\* r'(signature\s*:?\s*)?michael' matches at position i
SignatureAt(t, i) ==
    \/ MatchCI(t, i, Michael)
    \/ /\ MatchCI(t, i, SignatureWord)
       /\ LET a == SkipSpace(t, i + Len(SignatureWord))
              b == IF MatchExact(t, a, <<":">>) THEN a + 1 ELSE a
          IN  MatchCI(t, SkipSpace(t, b), Michael)

\* a search that compares the case exactly
HasSignatureCaseSensitive(t) == \E i \in 1..Len(t) : MatchExact(t, i, Michael)

HasSignature(t) == \E i \in 1..Len(t) : SignatureAt(t, i)

\* a version without the rstrip()
AddSignatureNoStrip(t) ==
    IF HasSignature(t) THEN t
    ELSE LET padded == IF ~EndsWith(t, NL \o NL)
                       THEN IF ~EndsWith(t, NL) THEN t \o NL \o NL ELSE t \o NL
                       ELSE t
         IN  padded \o Michael

\* a version that ends the signature line with a newline
AddSignatureTrailingNewline(t) ==
    IF HasSignature(t) THEN t
    ELSE RStrip(t) \o NL \o NL \o Michael \o NL

\* a version with strip() in place of rstrip()
AddSignatureStripBoth(t) ==
    IF HasSignature(t) THEN t
    ELSE LET r == RStrip(t)
             s == SubSeq(r, SkipSpace(r, 1), Len(r))
             padded == IF ~EndsWith(s, NL \o NL)
                       THEN IF ~EndsWith(s, NL) THEN s \o NL \o NL ELSE s \o NL
                       ELSE s
         IN  padded \o Michael

\* a version that leaves a text without any content unsigned
AddSignatureIfContent(t) ==
    IF HasSignature(t) \/ RStrip(t) = << >> THEN t
    ELSE LET s == RStrip(t)
             padded == IF ~EndsWith(s, NL \o NL)
                       THEN IF ~EndsWith(s, NL) THEN s \o NL \o NL ELSE s \o NL
                       ELSE s
         IN  padded \o Michael

\* a version that looks for the name only at the end of the text
AddSignatureUnlessLast(t) ==
    IF EndsWith(RStrip(t), Michael) THEN t
    ELSE LET s == RStrip(t)
             padded == IF ~EndsWith(s, NL \o NL)
                       THEN IF ~EndsWith(s, NL) THEN s \o NL \o NL ELSE s \o NL
                       ELSE s
         IN  padded \o Michael

AddSignature(t) ==
    IF HasSignature(t) THEN t
    ELSE LET s == RStrip(t)
             padded == IF ~EndsWith(s, NL \o NL)
                       THEN IF ~EndsWith(s, NL) THEN s \o NL \o NL ELSE s \o NL
                       ELSE s
         IN  padded \o Michael

----------------------------------------------------------------------------
(* State machine: one text goes through the post-processing calls of       *)
(* extract_text_from_base64_images; each of the four methods can also be   *)
(* called on the raw text directly, and the returned text can be fed to    *)
(* the pipeline again.                                                     *)
(*                                                                         *)
(*   raw    the text first handed to the pipeline                          *)
(*   text   combined_text, the current value                               *)
(*   prev   the argument of the last method call                           *)
(*   stage  the last method called                                         *)
(*   pc     position in the pipeline                                       *)
(*   outs   the texts returned by the completed passes, in order           *)

\* the four calls composed, in the order of the source
Normalize(t) ==
    AddSignature(FixBulletFormat(FormatSectionHeaders(FixCommonErrors(t))))

\* no pass of the pipeline is under way
PipelineIdle ==
    /\ raw = << >>
    /\ text = << >>
    /\ prev = << >>
    /\ stage = "none"
    /\ pc = "idle"
    /\ outs = << >>

NoRequest == [op |-> "none", note_id |-> 0, pages |-> << >>, fault |-> "none", data |-> << >>]

NoResponse == [status |-> 0, note_id |-> 0, body |-> << >>, ids |-> {}]

\* an empty notes table and uploads directory, no request made yet
ApiIdle ==
    /\ notes = << >>
    /\ uploads = {}
    /\ request = NoRequest
    /\ response = NoResponse

\* no concurrent invocation
CallsIdle == calls = << >>

\* no clock reading, an empty user_auth table, no token operation
NoAuthCall == [op |-> "none", user |-> "", fault |-> "none", outcome |-> "none", token |-> 0]

AuthIdle ==
    /\ now = 0
    /\ user_auth = << >>
    /\ issued = 0
    /\ auth = NoAuthCall

MaxFrags == 3

MaxPasses == 2

\* all concatenations of at most n fragments of F
RECURSIVE Concats(_, _)
Concats(F, n) ==
    IF n = 0 THEN {<< >>}
    ELSE LET S == Concats(F, n - 1)
         IN  S \cup {s \o f : s \in S, f \in F}

HeaderFragments ==
    { Attendees, Attendees \o <<":">>, Stars \o <<"a","t","t","e","n","d","e","e","s">> \o Stars,
      NL \o Personal \o <<":">>, NL, <<" ">>, Stars }

BulletFragments ==
    { <<"-">>, <<"-"," ">>, <<BulletGlyph>>, <<" "," ">>, <<" ">>, <<"\t">>, <<"a">>, NL,
      <<"\n","-","a">> }

SignatureFragments ==
    { Michael, <<"m","i","c","h","a","e","l">>, <<"S","i","g","n","a","t","u","r","e",":"," ">>,
      <<"a",".">>, NL, <<" ">> }

ErrorFragments ==
    { <<"M">>, <<"x","L">>, <<"x">>, <<"L">>, <<".">>, <<" ">>, <<"A">>, NL, <<"\t">>,
      <<"M"," ","x"," ","L">> }

MixedFragments ==
    { Attendees \o <<":">>, Attendees, <<"\n","-"," ","a">>, <<"M","x","L">>, NL \o Michael,
      NL, <<" ">> }

\* The stages are total functions over arbitrary text, and the text given to
\* a later pass is whatever was stored, so the input ranges over arbitrary
\* texts built from the fragments above.
Inputs ==
    Concats(HeaderFragments, MaxFrags) \cup Concats(BulletFragments, MaxFrags)
        \cup Concats(SignatureFragments, MaxFrags) \cup Concats(ErrorFragments, MaxFrags)
        \cup Concats(MixedFragments, MaxFrags)

Init ==
    /\ raw \in Inputs
    /\ text = raw
    /\ prev = raw
    /\ stage = "none"
    /\ pc = "combined"
    /\ outs = << >>
    /\ ApiIdle
    /\ AuthIdle
    /\ CallsIdle

\* combined_text = self._fix_common_errors(combined_text)
RunFixCommonErrors ==
    /\ pc = "combined"
    /\ prev' = text
    /\ text' = FixCommonErrors(text)
    /\ stage' = "errors"
    /\ pc' = "errors_fixed"
    /\ UNCHANGED <<raw, outs, apiVars, calls, authVars>>

\* combined_text = self._format_section_headers(combined_text)
RunFormatSectionHeaders ==
    /\ pc = "errors_fixed"
    /\ prev' = text
    /\ text' = FormatSectionHeaders(text)
    /\ stage' = "headers"
    /\ pc' = "headers_formatted"
    /\ UNCHANGED <<raw, outs, apiVars, calls, authVars>>

\* a pipeline that goes past the bullet stage without calling it
RunFixBulletFormatSkipped ==
    /\ pc = "headers_formatted"
    /\ prev' = text
    /\ text' = text
    /\ stage' = "bullets"
    /\ pc' = "bullets_fixed"
    /\ UNCHANGED <<raw, outs, apiVars, calls, authVars>>

\* combined_text = self._fix_bullet_format(combined_text)
RunFixBulletFormat ==
    /\ pc = "headers_formatted"
    /\ prev' = text
    /\ text' = FixBulletFormat(text)
    /\ stage' = "bullets"
    /\ pc' = "bullets_fixed"
    /\ UNCHANGED <<raw, outs, apiVars, calls, authVars>>

\* combined_text = self._add_signature(combined_text); return {'text': ...}
RunAddSignature ==
    /\ pc = "bullets_fixed"
    /\ prev' = text
    /\ text' = AddSignature(text)
    /\ stage' = "signature"
    /\ pc' = "returned"
    /\ outs' = Append(outs, AddSignature(text))
    /\ UNCHANGED <<raw, apiVars, calls, authVars>>

\* the returned text is given to the pipeline again
Renormalize ==
    /\ pc = "returned"
    /\ Len(outs) < MaxPasses
    /\ prev' = text
    /\ stage' = "none"
    /\ pc' = "combined"
    /\ UNCHANGED <<raw, text, outs, apiVars, calls, authVars>>

\* _format_section_headers called on the raw text
CallFormatSectionHeaders ==
    /\ pc = "combined"
    /\ outs = << >>
    /\ prev' = text
    /\ text' = FormatSectionHeaders(text)
    /\ stage' = "headers"
    /\ pc' = "called"
    /\ UNCHANGED <<raw, outs, apiVars, calls, authVars>>

\* _fix_bullet_format called on the raw text
CallFixBulletFormat ==
    /\ pc = "combined"
    /\ outs = << >>
    /\ prev' = text
    /\ text' = FixBulletFormat(text)
    /\ stage' = "bullets"
    /\ pc' = "called"
    /\ UNCHANGED <<raw, outs, apiVars, calls, authVars>>

\* _add_signature called on the raw text
CallAddSignature ==
    /\ pc = "combined"
    /\ outs = << >>
    /\ prev' = text
    /\ text' = AddSignature(text)
    /\ stage' = "signature"
    /\ pc' = "called"
    /\ UNCHANGED <<raw, outs, apiVars, calls, authVars>>

Next ==
    \/ RunFixCommonErrors
    \/ RunFormatSectionHeaders
    \/ RunFixBulletFormat
    \/ RunAddSignature
    \/ Renormalize
    \/ CallFormatSectionHeaders
    \/ CallFixBulletFormat
    \/ CallAddSignature

Spec == Init /\ [][Next]_vars

----------------------------------------------------------------------------
(* Vocabulary of the properties.                                           *)

ContainsCI(t, lit) == \E i \in 1..Len(t) : MatchCI(t, i, lit)

\* the number of non-overlapping occurrences of lit from position i on,
\* counted from the left as str.count does, case-insensitively
RECURSIVE CountFromCI(_, _, _)
CountFromCI(t, lit, i) ==
    IF \E j \in i..Len(t) : MatchCI(t, j, lit)
    THEN LET j == CHOOSE j \in i..Len(t) :
                        MatchCI(t, j, lit) /\ \A k \in i..(j - 1) : ~MatchCI(t, k, lit)
         IN  1 + CountFromCI(t, lit, j + Len(lit))
    ELSE 0

CountCI(t, lit) == CountFromCI(t, lit, 1)

LineStarts(t) == {i \in 1..(Len(t) + 1) : i = 1 \/ t[i - 1] = "\n"}

\* the line starts of t where the keyword stands, followed by a colon
ColonStarts(header, t) ==
    {i \in LineStarts(t) : MatchCI(t, i, header \o <<":">>)}

\* the line starts of t where the keyword stands alone on its line
AloneStarts(header, t) ==
    {i \in LineStarts(t) :
        /\ MatchCI(t, i, header)
        /\ (i + Len(header) = Len(t) + 1 \/ MatchExact(t, i + Len(header), NL))}

\* the line starts of t where the wrapped keyword stands
WrappedStarts(header, t) ==
    {i \in LineStarts(t) : MatchCI(t, i, <<"*","*">> \o header \o <<"*","*">>)}

WrappedForm(header) == <<"*","*">> \o header \o <<"*","*">>

\* the line is: whitespace, a marker at m, whitespace, content from c on
BulletShape(line, m, c) ==
    /\ \A j \in 1..(m - 1) : IsSpace(line[j])
    /\ line[m] \in {"-", BulletGlyph}
    /\ c >= m + 2
    /\ \A j \in (m + 1)..(c - 1) : IsSpace(line[j])
    /\ ~IsSpace(line[c])

\* the line matches the bullet pattern: a marker after the indentation, one
\* whitespace character, and at least one more character
MatchesBullet(line) ==
    \E m \in 1..Len(line) :
        /\ \A j \in 1..(m - 1) : IsSpace(line[j])
        /\ line[m] \in {"-", BulletGlyph}
        /\ Len(line) >= m + 2
        /\ IsSpace(line[m + 1])

IsBlank(line) == \A j \in 1..Len(line) : IsSpace(line[j])

\* out is x without its trailing whitespace, then two newlines, then the token
SignatureAppended(x, out) ==
    \E n \in 0..Len(x) :
        /\ \A k \in (n + 1)..Len(x) : IsSpace(x[k])
        /\ (n = 0 \/ ~IsSpace(x[n]))
        /\ out = SubSeq(x, 1, n) \o <<"\n","\n","M","i","c","h","a","e","l">>

\* the last line of out is the token, the line before it is empty and the
\* line before that is not blank
OneBlankLineBeforeToken(out) ==
    LET L == SplitLines(out)
    IN  /\ Len(L) >= 3
        /\ L[Len(L)] = Michael
        /\ L[Len(L) - 1] = << >>
        /\ ~IsBlank(L[Len(L) - 2])

----------------------------------------------------------------------------
(* The note endpoints of api/notes.py over the notes table and the uploads *)
(* directory of services/storage_service.py.  A note is its title, content *)
(* and file_path (the other columns are not read by the properties); a     *)
(* request is handled in one step.                                         *)
(*                                                                         *)
(*   notes     the notes table: id -> row                                  *)
(*   uploads   the paths of the files in the uploads directory             *)
(*   request   the last request: its operation, its arguments, what the    *)
(*             vision model answered (pages) and which call failed (fault) *)
(*   response  the response to it                                          *)

MaxUploads == 2

\* the highest id the model lets the table give
MaxNoteId == MaxUploads

NoteIds == 1..MaxNoteId

\* str.strip()
Strip(t) ==
    LET r == RStrip(t)
    IN  SubSeq(r, SkipSpace(r, 1), Len(r))

\* "\n\n".join(all_text_parts)
RECURSIVE JoinPagesFrom(_, _)
JoinPagesFrom(parts, k) ==
    IF k > Len(parts) THEN << >>
    ELSE IF k = Len(parts) THEN parts[k]
    ELSE parts[k] \o NL \o NL \o JoinPagesFrom(parts, k + 1)

\* page_text = ...content.strip(); combined_text = "\n\n".join(all_text_parts)
CombinedText(pages) == JoinPagesFrom([k \in 1..Len(pages) |-> Strip(pages[k])], 1)

\* extraction_result['text']
ExtractedText(pages) == Normalize(CombinedText(pages))

\* what the vision model answers for a page
PageNotes ==
    <<"P","e","r","s","o","n","a","l",":","M","x","L","\n","-"," ","\"","a","\""," ">>

PageBlank == <<" ">>

PageSigned == <<"M","i","c","h","a","e","l","\n">>

\* the answers for the pages of one document
PageLists ==
    { <<PageNotes>>, <<PageBlank>>, <<PageBlank, PageBlank>>, <<PageSigned, PageNotes>> }

\* ai_result['title']
UploadTitle == <<"T">>

\* the bodies of PUT /notes/{note_id}
UpdateData ==
    { [content |-> <<BulletGlyph," ","b","\\">>], [owner |-> <<"x">>] }

\* the queries of POST /search
Queries == { <<"m","b","l">>, <<"T">> }

\* json.dumps of one character of a string
JsonEscapeChar(c) ==
    CASE c = "\"" -> <<"\\", "\"">>
      [] c = "\\" -> <<"\\", "\\">>
      [] c = "\n" -> <<"\\", "n">>
      [] c = "\t" -> <<"\\", "t">>
      [] c = "\r" -> <<"\\", "r">>
      [] c = "\f" -> <<"\\", "f">>
      [] c = BulletGlyph -> <<"\\", "u", "2", "0", "2", "2">>
      [] OTHER -> <<c>>

\* json.dumps of the characters lo..hi of a string, without the quotes
RECURSIVE JsonEscapeRange(_, _, _)
JsonEscapeRange(t, lo, hi) ==
    IF lo > hi THEN << >>
    ELSE IF lo = hi THEN JsonEscapeChar(t[lo])
    ELSE LET m == (lo + hi) \div 2
         IN  JsonEscapeRange(t, lo, m) \o JsonEscapeRange(t, m + 1, hi)

JsonString(t) == <<"\"">> \o JsonEscapeRange(t, 1, Len(t)) \o <<"\"">>

\* storage_service.export_note(note, 'txt'), the title and content lines
ExportTxt(note) ==
    <<"T","i","t","l","e",":"," ">> \o note.title \o NL
        \o <<"C","o","n","t","e","n","t",":","\n">> \o note.content \o NL \o NL

\* storage_service.export_note(note, 'json'), the title and content members
ExportJson(note) ==
    <<"{","\n"," "," ","\"","t","i","t","l","e","\"",":"," ">> \o JsonString(note.title)
        \o <<",","\n"," "," ","\"","c","o","n","t","e","n","t","\"",":"," ">>
        \o JsonString(note.content) \o <<"\n","}">>

export_note(note, format) == IF format = "txt" THEN ExportTxt(note) ELSE ExportJson(note)

\* the id the table gives the next row
NewNoteId == IF DOMAIN notes = {} THEN 1 ELSE 1 + (CHOOSE i \in DOMAIN notes : \A j \in DOMAIN notes : j <= i)

\* the path uuid4 gives the next file: one never used in the directory
NewFilePath == CHOOSE p \in 1..(MaxUploads + MaxNoteId) :
                    /\ p \notin uploads
                    /\ \A i \in DOMAIN notes : notes[i].file_path # p
                    /\ \A q \in 1..(p - 1) : q \in uploads \/ \E i \in DOMAIN notes : notes[i].file_path = q

\* the paths of the files in the directory and of the files the rows name
KnownPaths == uploads \cup {notes[i].file_path : i \in DOMAIN notes}

Failed(fault, status) ==
    /\ request' = [NoRequest EXCEPT !.op = "upload", !.fault = fault]
    /\ response' = [NoResponse EXCEPT !.status = status]

\* a content-type check that comes after save_uploaded_file
UploadRejectedAfterSave ==
    /\ Cardinality(KnownPaths) < MaxUploads
    /\ Failed("not_pdf", 400)
    /\ uploads' = uploads \cup {NewFilePath}
    /\ UNCHANGED <<notes, pipelineVars, calls, authVars>>

\* upload_note: the content type is not application/pdf
UploadRejected ==
    /\ Failed("not_pdf", 400)
    /\ UNCHANGED <<notes, uploads, pipelineVars, calls, authVars>>

\* upload_note: save_uploaded_file raises, before or after it created the file
UploadSaveFailed ==
    /\ Cardinality(KnownPaths) < MaxUploads
    /\ Failed("save_error", 500)
    /\ \E created \in BOOLEAN :
          uploads' = IF created THEN uploads \cup {NewFilePath} ELSE uploads
    /\ UNCHANGED <<notes, pipelineVars, calls, authVars>>

\* upload_note: convert_pdf_to_base64_images raises or returns no image
UploadConvertFailed ==
    /\ Cardinality(KnownPaths) < MaxUploads
    /\ uploads' = uploads \cup {NewFilePath}
    /\ \/ Failed("convert_error", 500)
       \/ Failed("no_images", 400)
    /\ UNCHANGED <<notes, pipelineVars, calls, authVars>>

\* an upload that stores a blank note when the extraction raises
UploadExtractionFailedStoresBlank ==
    /\ Cardinality(KnownPaths) < MaxUploads
    /\ NewNoteId <= MaxNoteId
    /\ uploads' = uploads \cup {NewFilePath}
    /\ \/ Failed("extraction_value_error", 400)
       \/ Failed("extraction_error", 500)
    /\ notes' = [i \in DOMAIN notes \cup {NewNoteId} |->
                    IF i = NewNoteId
                    THEN [title |-> UploadTitle, content |-> << >>, file_path |-> NewFilePath]
                    ELSE notes[i]]
    /\ UNCHANGED <<pipelineVars, calls, authVars>>

\* upload_note: extract_text_from_base64_images raises, a ValueError (no
\* client) or any other exception (the API call, a missing content)
UploadExtractionFailed ==
    /\ Cardinality(KnownPaths) < MaxUploads
    /\ uploads' = uploads \cup {NewFilePath}
    /\ \/ Failed("extraction_value_error", 400)
       \/ Failed("extraction_error", 500)
    /\ UNCHANGED <<notes, pipelineVars, calls, authVars>>

\* upload_note: save_processed_note raises and rolls back
UploadDbFailed ==
    /\ Cardinality(KnownPaths) < MaxUploads
    /\ uploads' = uploads \cup {NewFilePath}
    /\ \E pages \in PageLists :
          request' = [NoRequest EXCEPT !.op = "upload", !.pages = pages, !.fault = "db_error"]
    /\ response' = [NoResponse EXCEPT !.status = 500]
    /\ UNCHANGED <<notes, pipelineVars, calls, authVars>>

\* upload_note to its return: the file is saved, the text extracted and the
\* note added with the extracted text as its content
UploadStored ==
    /\ Cardinality(KnownPaths) < MaxUploads
    /\ NewNoteId <= MaxNoteId
    /\ uploads' = uploads \cup {NewFilePath}
    /\ \E pages \in PageLists :
          /\ request' = [NoRequest EXCEPT !.op = "upload", !.pages = pages]
          /\ IF Strip(ExtractedText(pages)) = << >>
             THEN /\ response' = [NoResponse EXCEPT !.status = 400]
                  /\ notes' = notes
             ELSE /\ response' = [NoResponse EXCEPT !.status = 200, !.note_id = NewNoteId]
                  /\ notes' = [i \in DOMAIN notes \cup {NewNoteId} |->
                                  IF i = NewNoteId
                                  THEN [title |-> UploadTitle,
                                        content |-> ExtractedText(pages),
                                        file_path |-> NewFilePath]
                                  ELSE notes[i]]
    /\ UNCHANGED <<pipelineVars, calls, authVars>>

\* get_note
GetNote ==
    \E id \in NoteIds :
        /\ request' = [NoRequest EXCEPT !.op = "get", !.note_id = id]
        /\ response' = IF id \in DOMAIN notes
                       THEN [NoResponse EXCEPT !.status = 200, !.note_id = id,
                                               !.body = notes[id].content]
                       ELSE [NoResponse EXCEPT !.status = 404]
        /\ UNCHANGED <<notes, uploads, pipelineVars, calls, authVars>>

\* search_notes: the rows whose content or title contains the query (LIKE,
\* which the default sqlite database compares without case)
SearchNotes ==
    \E query \in Queries :
        /\ request' = [NoRequest EXCEPT !.op = "search", !.data = query]
        /\ response' = [NoResponse EXCEPT
                            !.status = 200,
                            !.ids = {i \in DOMAIN notes :
                                        \/ ContainsCI(notes[i].content, query)
                                        \/ ContainsCI(notes[i].title, query)}]
        /\ UNCHANGED <<notes, uploads, pipelineVars, calls, authVars>>

\* export_note
ExportNote ==
    \E id \in NoteIds : \E format \in {"txt", "json"} :
        /\ request' = [NoRequest EXCEPT !.op = "export", !.note_id = id, !.data = format]
        /\ response' = IF id \in DOMAIN notes
                       THEN [NoResponse EXCEPT !.status = 200, !.note_id = id,
                                               !.body = export_note(notes[id], format)]
                       ELSE [NoResponse EXCEPT !.status = 404]
        /\ UNCHANGED <<notes, uploads, pipelineVars, calls, authVars>>

\* the row with the fields of data that are columns set to the values given
Updated(note, data) ==
    [f \in DOMAIN note |-> IF f \in DOMAIN data THEN data[f] ELSE note[f]]

\* an update that runs the pipeline over the content it is given
UpdateNoteNormalizing ==
    \E id \in NoteIds : \E data \in UpdateData : \E fault \in {"none", "db_error"} :
        /\ request' = [NoRequest EXCEPT !.op = "update", !.note_id = id,
                                        !.data = data, !.fault = fault]
        /\ IF id \in DOMAIN notes /\ fault = "none"
           THEN /\ notes' = [notes EXCEPT ![id] =
                                [Updated(notes[id], data) EXCEPT
                                    !.content = Normalize(Updated(notes[id], data).content)]]
                /\ response' = [NoResponse EXCEPT !.status = 200, !.note_id = id,
                                                  !.body = notes'[id].content]
           ELSE /\ notes' = notes
                /\ response' = [NoResponse EXCEPT !.status = 404]
        /\ UNCHANGED <<uploads, pipelineVars, calls, authVars>>

\* update_note: storage_service.update_note sets the attributes the row has
\* and gives None, after a rollback, when the database raises
UpdateNote ==
    \E id \in NoteIds : \E data \in UpdateData : \E fault \in {"none", "db_error"} :
        /\ request' = [NoRequest EXCEPT !.op = "update", !.note_id = id,
                                        !.data = data, !.fault = fault]
        /\ IF id \in DOMAIN notes /\ fault = "none"
           THEN /\ notes' = [notes EXCEPT ![id] = Updated(notes[id], data)]
                /\ response' = [NoResponse EXCEPT !.status = 200, !.note_id = id,
                                                  !.body = notes'[id].content]
           ELSE /\ notes' = notes
                /\ response' = [NoResponse EXCEPT !.status = 404]
        /\ UNCHANGED <<uploads, pipelineVars, calls, authVars>>

\* delete_note: storage_service.delete_note removes the file, then the row;
\* when the database raises it rolls back and gives False, before or after
\* the file was removed
DeleteNote ==
    \E id \in NoteIds : \E fault \in {"none", "db_error"} :
        /\ request' = [NoRequest EXCEPT !.op = "delete", !.note_id = id, !.fault = fault]
        /\ IF id \in DOMAIN notes
           THEN IF fault = "none"
                THEN /\ notes' = [i \in DOMAIN notes \ {id} |-> notes[i]]
                     /\ uploads' = uploads \ {notes[id].file_path}
                     /\ response' = [NoResponse EXCEPT !.status = 200, !.note_id = id]
                ELSE /\ notes' = notes
                     /\ \E removed \in BOOLEAN :
                           uploads' = IF removed THEN uploads \ {notes[id].file_path}
                                      ELSE uploads
                     /\ response' = [NoResponse EXCEPT !.status = 404]
           ELSE /\ notes' = notes
                /\ uploads' = uploads
                /\ response' = [NoResponse EXCEPT !.status = 404]
        /\ UNCHANGED <<pipelineVars, calls, authVars>>

ApiInit ==
    /\ PipelineIdle
    /\ ApiIdle
    /\ AuthIdle
    /\ CallsIdle

ApiNext ==
    \/ UploadRejected
    \/ UploadSaveFailed
    \/ UploadConvertFailed
    \/ UploadExtractionFailed
    \/ UploadDbFailed
    \/ UploadStored
    \/ GetNote
    \/ SearchNotes
    \/ ExportNote
    \/ UpdateNote
    \/ DeleteNote

ApiSpec == ApiInit /\ [][ApiNext]_vars

----------------------------------------------------------------------------
(* Several invocations of extract_text_from_base64_images at once, each on *)
(* its own document.  combined_text is a local of the invocation and the   *)
(* four methods take the text as their argument; a step is one call.       *)
(*                                                                         *)
(*   calls   invocation -> its document (raw), its combined_text (text)    *)
(*           and its position in the pipeline (pc)                         *)

NumInvocations == 2

Invocations == 1..NumInvocations

\* the combined texts of the documents
Documents ==
    MixedFragments
        \cup { <<"A","t","t","e","n","d","e","e","s",":","M","x","L","\n","-"," ","a">> }

ConcurrentInit ==
    /\ calls \in [Invocations -> {[raw |-> d, text |-> d, pc |-> "combined"] : d \in Documents}]
    /\ PipelineIdle
    /\ ApiIdle
    /\ AuthIdle

\* combined_text = self._fix_common_errors(combined_text), in invocation i
InvokeFixCommonErrors(i) ==
    /\ calls[i].pc = "combined"
    /\ calls' = [calls EXCEPT ![i].text = FixCommonErrors(calls[i].text),
                              ![i].pc = "errors_fixed"]
    /\ UNCHANGED <<pipelineVars, apiVars, authVars>>

\* combined_text = self._format_section_headers(combined_text), in invocation i
InvokeFormatSectionHeaders(i) ==
    /\ calls[i].pc = "errors_fixed"
    /\ calls' = [calls EXCEPT ![i].text = FormatSectionHeaders(calls[i].text),
                              ![i].pc = "headers_formatted"]
    /\ UNCHANGED <<pipelineVars, apiVars, authVars>>

\* a bullet stage that takes its text from an attribute of the shared
\* service object, which holds the text of whichever invocation set it last
InvokeFixBulletFormatShared(i) ==
    /\ calls[i].pc = "headers_formatted"
    /\ \E j \in Invocations :
          calls' = [calls EXCEPT ![i].text = FixBulletFormat(calls[j].text),
                                 ![i].pc = "bullets_fixed"]
    /\ UNCHANGED <<pipelineVars, apiVars, authVars>>

\* combined_text = self._fix_bullet_format(combined_text), in invocation i
InvokeFixBulletFormat(i) ==
    /\ calls[i].pc = "headers_formatted"
    /\ calls' = [calls EXCEPT ![i].text = FixBulletFormat(calls[i].text),
                              ![i].pc = "bullets_fixed"]
    /\ UNCHANGED <<pipelineVars, apiVars, authVars>>

\* combined_text = self._add_signature(combined_text); return, in invocation i
InvokeAddSignature(i) ==
    /\ calls[i].pc = "bullets_fixed"
    /\ calls' = [calls EXCEPT ![i].text = AddSignature(calls[i].text),
                              ![i].pc = "returned"]
    /\ UNCHANGED <<pipelineVars, apiVars, authVars>>

ConcurrentNext ==
    \E i \in Invocations :
        \/ InvokeFixCommonErrors(i)
        \/ InvokeFormatSectionHeaders(i)
        \/ InvokeFixBulletFormat(i)
        \/ InvokeAddSignature(i)

ConcurrentSpec == ConcurrentInit /\ [][ConcurrentNext]_vars

----------------------------------------------------------------------------
(* Microsoft tokens: MicrosoftAuthService over the user_auth table, and    *)
(* the drafts endpoint that asks it for a token.                           *)
(*                                                                         *)
(*   now        datetime.utcnow(), in minutes                              *)
(*   user_auth  user_email -> the row's access_token, refresh_token and    *)
(*              token_expires_at; users without a row are not in DOMAIN    *)
(*   issued     how many tokens Microsoft has issued; token n is the n-th  *)
(*   auth       the last operation, its input fault and its outcome        *)

\* buffer = timedelta(minutes=5)
Buffer == 5

MaxTime == 7

MaxTokens == 3

Users == {"a", "b"}

\* expires_in of an issued token, in minutes
ExpiresIn == {3, 8}

\* the token data MSAL returns for the n-th issued token; refresh_token 0
\* stands for a response without the key
TokenData(n, expires_in, with_refresh) ==
    [access_token |-> n,
     refresh_token |-> IF with_refresh THEN n ELSE 0,
     expires_in |-> expires_in]

\* the table after save_tokens has committed
save_tokens(rows, user_email, token_data, utcnow) ==
    IF user_email \in DOMAIN rows
    THEN [rows EXCEPT ![user_email] =
            [access_token |-> token_data.access_token,
             refresh_token |-> IF token_data.refresh_token # 0
                               THEN token_data.refresh_token
                               ELSE rows[user_email].refresh_token,
             token_expires_at |-> utcnow + token_data.expires_in]]
    ELSE (user_email :> [access_token |-> token_data.access_token,
                         refresh_token |-> token_data.refresh_token,
                         token_expires_at |-> utcnow + token_data.expires_in]) @@ rows

\* a check that lets a token through until the moment it expires
NeedsRefreshAtExpiry(row, utcnow) == row.token_expires_at <= utcnow

\* user_auth.token_expires_at <= now + buffer
NeedsRefresh(row, utcnow) == row.token_expires_at <= utcnow + Buffer

AuthCall(op, user, fault, outcome, token) ==
    [op |-> op, user |-> user, fault |-> fault, outcome |-> outcome, token |-> token]

\* time passes
Tick ==
    /\ now < MaxTime
    /\ now' = now + 1
    /\ auth' = AuthCall("tick", "", "none", "none", 0)
    /\ UNCHANGED <<user_auth, issued, pipelineVars, apiVars, calls>>

\* /auth/callback with a code: the code is exchanged and the tokens saved
AuthCallback(user) ==
    /\ issued < MaxTokens
    /\ \E e \in ExpiresIn :
          /\ issued' = issued + 1
          /\ user_auth' = save_tokens(user_auth, user, TokenData(issued + 1, e, TRUE), now)
          /\ auth' = AuthCall("callback", user, "none", "saved", issued + 1)
    /\ UNCHANGED <<now, pipelineVars, apiVars, calls>>

\* /auth/callback when the exchange or the commit fails
AuthCallbackFailed(user) ==
    /\ auth' = AuthCall("callback", user, "exchange_error", "error_500", 0)
    /\ auth' # auth
    /\ UNCHANGED <<now, user_auth, issued, pipelineVars, apiVars, calls>>

\* get_valid_token for a user without a row
GetValidTokenNoUser(user) ==
    /\ user \notin DOMAIN user_auth
    /\ auth' = AuthCall("get_valid_token", user, "none", "raised", 0)
    /\ UNCHANGED <<now, user_auth, issued, pipelineVars, apiVars, calls>>

\* get_valid_token when the stored token is good for more than the buffer
GetValidTokenStored(user) ==
    /\ user \in DOMAIN user_auth
    /\ ~NeedsRefresh(user_auth[user], now)
    /\ auth' = AuthCall("get_valid_token", user, "none", "returned",
                        user_auth[user].access_token)
    /\ UNCHANGED <<now, user_auth, issued, pipelineVars, apiVars, calls>>

\* get_valid_token refreshing: refresh_access_token, save_tokens, return
GetValidTokenRefreshed(user) ==
    /\ user \in DOMAIN user_auth
    /\ NeedsRefresh(user_auth[user], now)
    /\ issued < MaxTokens
    /\ \E e \in ExpiresIn, with_refresh \in BOOLEAN :
          /\ issued' = issued + 1
          /\ user_auth' = save_tokens(user_auth, user,
                                      TokenData(issued + 1, e, with_refresh), now)
          /\ auth' = AuthCall("get_valid_token", user, "none", "returned", issued + 1)
    /\ UNCHANGED <<now, pipelineVars, apiVars, calls>>

\* get_valid_token when refresh_access_token raises, or when the commit in
\* save_tokens does after Microsoft has issued the token
GetValidTokenRefreshFailed(user) ==
    /\ user \in DOMAIN user_auth
    /\ NeedsRefresh(user_auth[user], now)
    /\ \E fault \in {"refresh_error", "db_error"} :
          /\ fault = "db_error" => issued < MaxTokens
          /\ issued' = IF fault = "db_error" THEN issued + 1 ELSE issued
          /\ auth' = AuthCall("get_valid_token", user, fault, "raised", 0)
    /\ UNCHANGED <<now, user_auth, pipelineVars, apiVars, calls>>

\* /drafts/list: the handler names microsoft_auth_service, which the module
\* never binds, so the lookup raises NameError inside the try and the
\* handler answers 500 whatever the user's row and whatever Graph would do
ListUserDrafts(user) ==
    /\ \E fault \in {"none", "graph_error"} :
          auth' = AuthCall("list_drafts", user, fault, "error_500", 0)
    /\ UNCHANGED <<now, user_auth, issued, pipelineVars, apiVars, calls>>

AuthInit == PipelineIdle /\ ApiIdle /\ CallsIdle /\ AuthIdle

AuthNext ==
    \/ Tick
    \/ \E user \in Users :
          \/ AuthCallback(user)
          \/ AuthCallbackFailed(user)
          \/ GetValidTokenNoUser(user)
          \/ GetValidTokenStored(user)
          \/ GetValidTokenRefreshed(user)
          \/ GetValidTokenRefreshFailed(user)
          \/ ListUserDrafts(user)

AuthSpec == AuthInit /\ [][AuthNext]_vars

----------------------------------------------------------------------------
(* The pipeline as a whole.                                                *)

\* C1: the pipeline is idempotent on every input: the text returned by a
\* second pass over the returned text equals the text the first pass returned.
C1_PipelineIdempotent == Len(outs) >= 2 => outs[2] = outs[1]

\* C2: for every input that already contains 'michael' (in any case), with
\* any mix of header and bullet lines, a second pass returns the text the
\* first pass returned.
C2_IdempotentWithSignature ==
    (Len(outs) >= 2 /\ ContainsCI(raw, Michael)) => outs[2] = outs[1]

C2_Witness ==
    /\ Len(outs) = 2
    /\ ContainsCI(raw, Michael)
    /\ ColonStarts(Attendees, raw) # {}
    /\ \E k \in 1..Len(SplitLines(raw)) : MatchesBullet(SplitLines(raw)[k])
    /\ outs[1] # raw
    /\ outs[2] = outs[1]

\* C3 as stated: for every input the returned text ends with 'Michael'.
C3_AlwaysEndsWithSignature == pc = "returned" => EndsWith(text, Michael)

\* C3, amended: the returned text always contains 'michael' (in any case),
\* and it ends with 'Michael' whenever the input contained no 'michael'.
C3_EndsWithSignatureUnlessPresent ==
    (pc = "returned" /\ Len(outs) = 1) =>
        /\ ContainsCI(text, Michael)
        /\ (~ContainsCI(raw, Michael) => EndsWith(text, Michael))

C3_Witness ==
    /\ pc = "returned"
    /\ Len(outs) = 1
    /\ ~ContainsCI(raw, Michael)
    /\ Len(raw) > 0
    /\ EndsWith(text, Michael)

----------------------------------------------------------------------------
(* _add_signature                                                          *)

\* C4: the signature is never duplicated: a text that contains 'michael'
\* anywhere, in any case, is returned unchanged, so the number of 'michael'
\* occurrences stays what it was; a text without one gets exactly one.
C4_SignatureNeverDuplicated ==
    stage = "signature" =>
        IF ContainsCI(prev, Michael)
        THEN text = prev /\ CountCI(text, Michael) = CountCI(prev, Michael)
        ELSE CountCI(text, Michael) = 1

C4_Witness ==
    /\ stage = "signature"
    /\ \E i \in 1..Len(prev) :
          /\ MatchCI(prev, i, Michael)
          /\ ~MatchExact(prev, i, Michael)
          /\ i + Len(Michael) <= Len(prev)
    /\ text = prev

\* C5 as stated: a text without 'michael' comes back stripped of trailing
\* whitespace, followed by two newlines and 'Michael', and the result always
\* has exactly one blank line before the token.
C5_AppendedWithOneBlankLine ==
    (stage = "signature" /\ ~ContainsCI(prev, Michael)) =>
        /\ SignatureAppended(prev, text)
        /\ OneBlankLineBeforeToken(text)

\* C5, amended: a text without 'michael' comes back stripped of trailing
\* whitespace, followed by two newlines and 'Michael', whatever newlines it
\* ended with; the token has exactly one blank line before it when the
\* stripped text is not empty, and the result is two newlines and 'Michael'
\* when it is.
C5_SignatureAppended ==
    (stage = "signature" /\ ~ContainsCI(prev, Michael)) =>
        /\ SignatureAppended(prev, text)
        /\ IF IsBlank(prev)
           THEN text = <<"\n","\n","M","i","c","h","a","e","l">>
           ELSE OneBlankLineBeforeToken(text)

C5_Witness ==
    /\ stage = "signature"
    /\ ~ContainsCI(prev, Michael)
    /\ ~IsBlank(prev)
    /\ EndsWith(prev, NL)
    /\ ~EndsWith(prev, NL \o NL)
    /\ EndsWith(text, <<"\n","\n","M","i","c","h","a","e","l">>)
    /\ Len(text) = Len(prev) + 8

----------------------------------------------------------------------------
(* _fix_bullet_format                                                      *)

\* C6: every line made of optional indentation, a marker, whitespace (spaces
\* or tabs) and content becomes one space, a hyphen, two spaces and the
\* content unchanged; the indentation and the marker are dropped.
C6_BulletLinesCanonical ==
    stage = "bullets" =>
        LET P == SplitLines(prev)
            T == SplitLines(text)
        IN  /\ Len(T) = Len(P)
            /\ \A k \in 1..Len(P) : \A m \in 1..Len(P[k]) : \A c \in (m + 2)..Len(P[k]) :
                  BulletShape(P[k], m, c) =>
                      T[k] = <<" ","-"," "," ">> \o SubSeq(P[k], c, Len(P[k]))

C6_Witness ==
    /\ stage = "bullets"
    /\ \E k \in 1..Len(SplitLines(prev)) :
          /\ SplitLines(prev)[k] = <<" "," ","-"," ","a">>
          /\ SplitLines(text)[k] = <<" ","-"," "," ","a">>

\* C7: every line that does not match the bullet pattern (blank, without a
\* marker, or with a marker not followed by whitespace) is left as it is, and
\* the number and order of the lines is kept.
C7_OtherLinesUntouched ==
    stage = "bullets" =>
        LET P == SplitLines(prev)
            T == SplitLines(text)
        IN  /\ Len(T) = Len(P)
            /\ \A k \in 1..Len(P) : ~MatchesBullet(P[k]) => T[k] = P[k]

C7_Witness ==
    /\ stage = "bullets"
    /\ LET P == SplitLines(prev)
           T == SplitLines(text)
       IN  /\ Len(P) >= 2
           /\ \E j \in 1..Len(P) : MatchesBullet(P[j]) /\ T[j] # P[j]
           /\ \E k \in 1..Len(P) :
                 /\ Len(P[k]) >= 2
                 /\ P[k][1] = "-"
                 /\ ~IsSpace(P[k][2])
                 /\ T[k] = P[k]

----------------------------------------------------------------------------
(* _format_section_headers                                                 *)

\* C8: a keyword followed by a colon at a line start, not wrapped anywhere
\* yet, is wrapped in '**' with the colon left in place after the closing
\* markers: the output has a line that starts with '**keyword**:'.
C8_ColonKeptAfterWrap ==
    stage = "headers" =>
        \A h \in 1..Len(section_headers) :
            (/\ ~ContainsCI(prev, WrappedForm(section_headers[h]))
             /\ ColonStarts(section_headers[h], prev) # {})
            => \E i \in LineStarts(text) :
                  MatchCI(text, i, WrappedForm(section_headers[h]) \o <<":">>)

QuadAdjacent(header, t) ==
    \E i \in 1..Len(t) :
        /\ MatchCI(t, i, header)
        /\ \/ MatchExact(t, i - 4, Stars \o Stars)
           \/ MatchExact(t, i + Len(header), Stars \o Stars)

\* C11: the header formatter never double-wraps: its output has '****' next
\* to a keyword only when its input already had '****' next to that keyword.
C11_NoDoubleWrap ==
    stage = "headers" =>
        \A h \in 1..Len(section_headers) :
            QuadAdjacent(section_headers[h], text) => QuadAdjacent(section_headers[h], prev)

----------------------------------------------------------------------------
(* _fix_common_errors                                                      *)

\* a capital letter stands at i after a word boundary, only dots and spaces
\* lie between it and the 'xL' at k, and a word boundary follows the 'xL'
CapitalOccurrence(t, i, k) ==
    /\ i >= 1 /\ i < k /\ k + 1 <= Len(t)
    /\ t[i] \in UpperSet
    /\ WordBoundary(t, i)
    /\ \A j \in (i + 1)..(k - 1) : t[j] \in {".", " "}
    /\ MatchExact(t, k, <<"x","L">>)
    /\ WordBoundary(t, k + 2)

\* C12: every word-bounded occurrence of a capital letter, dots or spaces
\* and 'xL' is replaced by the letter and 'BL', whatever the letter and
\* wherever it stands: the output is the normalized text before the
\* occurrence, the letter, 'BL', and the normalized text after it.
C12_EveryOccurrenceRewritten ==
    stage = "errors" =>
        \A i \in 1..Len(prev) : \A k \in 2..Len(prev) :
            CapitalOccurrence(prev, i, k) =>
                text = FixCommonErrors(SubSeq(prev, 1, i - 1))
                          \o <<prev[i], "B", "L">>
                          \o FixCommonErrors(SubSeq(prev, k + 2, Len(prev)))

\* a letter of either case stands at i after a word boundary, only dots and
\* spaces lie between it and the 'xL' (of either case) at k, and a word
\* boundary follows
ArtifactSpan(t, i, k) ==
    /\ i >= 1 /\ i < k /\ k + 1 <= Len(t)
    /\ IsLetter(t[i])
    /\ WordBoundary(t, i)
    /\ \A j \in (i + 1)..(k - 1) : t[j] \in {".", " "}
    /\ MatchCI(t, k, <<"x","L">>)
    /\ WordBoundary(t, k + 2)

\* C13: nothing but spans of a letter, dots or spaces and 'xL' is altered: a
\* text without such a span ('M x L', or a letter with a newline or a tab
\* before the 'xL') comes back as it was.
C13_OnlyArtifactSpansAltered ==
    stage = "errors" =>
        ((\A i \in 1..Len(prev) : \A k \in 2..Len(prev) : ~ArtifactSpan(prev, i, k))
            => text = prev)

----------------------------------------------------------------------------
(* What the stages leave alone.                                            *)

\* the position in b just after the leftmost embedding of a[lo..hi] that
\* starts at or after s; Len(b) + 2 when there is none
RECURSIVE EmbedEnd(_, _, _, _, _)
EmbedEnd(a, lo, hi, b, s) ==
    IF lo > hi THEN s
    ELSE IF lo = hi
         THEN IF \E j \in s..Len(b) : b[j] = a[lo]
              THEN 1 + (CHOOSE j \in s..Len(b) :
                            b[j] = a[lo] /\ \A k \in s..(j - 1) : b[k] # a[lo])
              ELSE Len(b) + 2
         ELSE LET m == (lo + hi) \div 2
                  e == EmbedEnd(a, lo, m, b, s)
              IN  IF e > Len(b) + 1 THEN e ELSE EmbedEnd(a, m + 1, hi, b, e)

\* the characters of a occur in b, in the same order
IsSubseq(a, b) == EmbedEnd(a, 1, Len(a), b, 1) <= Len(b) + 1

IsPrefix(a, b) == Len(a) <= Len(b) /\ SubSeq(b, 1, Len(a)) = a

\* the characters of t at the positions of P, in order
Pick(t, P) ==
    [k \in 1..Cardinality(P) |->
        t[CHOOSE p \in P : Cardinality({q \in P : q < p}) = k - 1]]

\* the positions of t inside a match of one of the patterns
CoveredBy(pats, t) ==
    UNION {i..(MatchEnd(pats[n], t, i) - 1) : i \in 1..Len(t), n \in 1..Len(pats)}

\* t without the spans its error patterns match
OutsideErrors(t) == Pick(t, (1..Len(t)) \ CoveredBy(patterns_to_fix, t))

\* t without the keywords (and their colons) its line patterns match
OutsideHeaders(t) ==
    Pick(t, (1..Len(t)) \
            UNION {CoveredBy(SubSeq(HeaderPatterns(section_headers[h]), 1, 2), t) :
                        h \in 1..Len(section_headers)})

\* t without the indentation, marker and separator of its bullet lines
OutsideBullets(t) ==
    LET lines == SplitLines(t)
    IN  JoinLines([k \in 1..Len(lines) |->
            IF BulletContentStart(lines[k]) > 0
            THEN SubSeq(lines[k], BulletContentStart(lines[k]), Len(lines[k]))
            ELSE lines[k]])

----------------------------------------------------------------------------
(* extract_text_from_base64_images                                         *)

\* C15: the text a pass returns is the signature stage applied to the bullet
\* stage applied to the header stage applied to the error stage applied to
\* the text the pass was given: each stage once, in that order, none skipped.
C15_ReturnsComposition ==
    pc = "returned" =>
        /\ text = outs[Len(outs)]
        /\ outs[Len(outs)] = Normalize(IF Len(outs) = 1 THEN raw ELSE outs[Len(outs) - 1])

C15_Witness ==
    /\ pc = "returned"
    /\ Len(outs) = 1
    /\ FixCommonErrors(raw) # raw
    /\ FormatSectionHeaders(FixCommonErrors(raw)) # FixCommonErrors(raw)
    /\ FixBulletFormat(FormatSectionHeaders(FixCommonErrors(raw)))
          # FormatSectionHeaders(FixCommonErrors(raw))
    /\ text # prev
    /\ text = Normalize(raw)

----------------------------------------------------------------------------
(* _format_section_headers, both line forms                                *)

\* C19: a keyword that is wrapped nowhere when its turn comes has all its
\* line-start occurrences wrapped, those alone on a line as well as those
\* followed by a colon: none of either form is left in the output.
C19_BothFormsWrapped ==
    stage = "headers" =>
        \A h \in 1..Len(section_headers) :
            LET header == section_headers[h]
            IN  ~ContainsCI(FormatHeaders(1, h - 1, prev), WrappedForm(header)) =>
                    /\ ColonStarts(header, text) = {}
                    /\ AloneStarts(header, text) = {}

----------------------------------------------------------------------------
(* _fix_bullet_format, applied to its own output                           *)

\* C20: the bullet stage is idempotent on every text: applied to its own
\* output it changes nothing, also when the content of a line starts with a
\* marker or is only whitespace.
C20_BulletsIdempotent == stage = "bullets" => FixBulletFormat(text) = text

C20_Witness ==
    /\ stage = "bullets"
    /\ text # prev
    /\ \E k \in 1..Len(SplitLines(text)) :
          /\ SplitLines(prev)[k] = <<"-"," ","-"," ","a">>
          /\ SplitLines(text)[k] = <<" ","-"," "," ","-"," ","a">>
    /\ FixBulletFormat(text) = text

----------------------------------------------------------------------------
(* upload_note and the endpoints that read the notes table                 *)

\* C16: when the extraction raises during an upload, the request ends with
\* an error response and the notes table is what it was before the request.
C16_FailedExtractionStoresNothing ==
    [][(/\ request'.op = "upload"
        /\ request'.fault \in {"extraction_value_error", "extraction_error"})
       => /\ response'.status \in {400, 500}
          /\ notes' = notes]_vars

C16_Witness ==
    /\ request.op = "upload"
    /\ request.fault = "extraction_error"
    /\ response.status = 500
    /\ DOMAIN notes # {}
    /\ \E p \in uploads : \A i \in DOMAIN notes : notes[i].file_path # p

\* the position of the first quote or backslash of e at or after i, 0 if none
NextJsonSpecial(e, i) ==
    IF \E j \in i..Len(e) : e[j] \in {"\"", "\\"}
    THEN CHOOSE j \in i..Len(e) :
            /\ e[j] \in {"\"", "\\"}
            /\ \A k \in i..(j - 1) : e[k] \notin {"\"", "\\"}
    ELSE 0

\* the character a two-character escape stands for
JsonUnescapeChar(c) ==
    CASE c = "n" -> "\n"
      [] c = "t" -> "\t"
      [] c = "r" -> "\r"
      [] c = "f" -> "\f"
      [] OTHER -> c

\* the string a JSON string literal denotes, read from just after its
\* opening quote at i - 1 up to its closing quote
RECURSIVE JsonDecodeFrom(_, _)
JsonDecodeFrom(e, i) ==
    LET j == NextJsonSpecial(e, i)
    IN  IF j = 0 THEN SubSeq(e, i, Len(e))
        ELSE IF e[j] = "\"" THEN SubSeq(e, i, j - 1)
        ELSE IF j + 5 <= Len(e) /\ e[j + 1] = "u"
             THEN SubSeq(e, i, j - 1)
                    \o <<"U+" \o e[j + 2] \o e[j + 3] \o e[j + 4] \o e[j + 5]>>
                    \o JsonDecodeFrom(e, j + 6)
        ELSE SubSeq(e, i, j - 1) \o <<JsonUnescapeChar(e[j + 1])>> \o JsonDecodeFrom(e, j + 2)

ContentKey == <<"\"","c","o","n","t","e","n","t","\"",":"," ","\"">>

ContentLabel == <<"C","o","n","t","e","n","t",":","\n">>

\* the exported text carries the content: verbatim after the 'Content:'
\* line of a txt export, as the value of the content member of a json export
Carries(body, format, content) ==
    IF format = "txt"
    THEN \E i \in 1..Len(body) : MatchExact(body, i, ContentLabel \o content \o NL \o NL)
    ELSE \E i \in 1..Len(body) :
            /\ MatchExact(body, i, ContentKey)
            /\ JsonDecodeFrom(body, i + Len(ContentKey)) = content

\* C17: the content stored by a successful upload is the pipeline's output
\* for the combined page text; get, search and export leave the table as it
\* is and get and export return the stored content; the content of a stored
\* note changes only through an update, which stores the content it is
\* given as it is, so the pipeline never runs over stored text.
C17_StoredContentKept ==
    [][/\ (request'.op = "upload" /\ response'.status = 200) =>
              /\ response'.note_id \notin DOMAIN notes
              /\ DOMAIN notes' = DOMAIN notes \cup {response'.note_id}
              /\ notes'[response'.note_id].content = Normalize(CombinedText(request'.pages))
       /\ request'.op \in {"get", "search", "export"} => notes' = notes
       /\ (request'.op = "get" /\ response'.status = 200) =>
              response'.body = notes[request'.note_id].content
       /\ (request'.op = "export" /\ response'.status = 200) =>
              Carries(response'.body, request'.data, notes[request'.note_id].content)
       /\ (request'.op = "update" /\ response'.status = 200) =>
              notes'[request'.note_id].content =
                  IF "content" \in DOMAIN request'.data
                  THEN request'.data.content
                  ELSE notes[request'.note_id].content
       /\ \A i \in DOMAIN notes \cap DOMAIN notes' :
              notes'[i].content # notes[i].content =>
                  /\ request'.op = "update"
                  /\ request'.note_id = i
                  /\ response'.status = 200
      ]_vars

C17_Witness ==
    /\ request.op = "export"
    /\ request.data = "json"
    /\ response.status = 200
    /\ notes[request.note_id].content = Normalize(CombinedText(<<PageNotes>>))
    /\ Normalize(CombinedText(<<PageNotes>>)) # CombinedText(<<PageNotes>>)
    /\ Carries(response.body, "json", notes[request.note_id].content)
    /\ \A i \in 1..Len(response.body) :
          ~MatchExact(response.body, i, notes[request.note_id].content)

----------------------------------------------------------------------------
(* Invocations side by side                                                *)

\* what an invocation on document d holds at position p when it runs alone
AloneAt(d, p) ==
    CASE p = "combined" -> d
      [] p = "errors_fixed" -> FixCommonErrors(d)
      [] p = "headers_formatted" -> FormatSectionHeaders(FixCommonErrors(d))
      [] p = "bullets_fixed" -> FixBulletFormat(FormatSectionHeaders(FixCommonErrors(d)))
      [] p = "returned" -> Normalize(d)

\* C18: invocations do not interfere: however their calls interleave, each
\* holds at every position what it would hold running alone on its document,
\* and so returns the pipeline's output for its own document.
C18_InvocationsIndependent ==
    \A i \in DOMAIN calls : calls[i].text = AloneAt(calls[i].raw, calls[i].pc)

C18_Witness ==
    /\ calls[1].pc = "returned"
    /\ calls[2].pc = "headers_formatted"
    /\ calls[1].raw # calls[2].raw
    /\ calls[1].text = Normalize(calls[1].raw)
    /\ FixBulletFormat(calls[1].raw) # calls[1].raw
    /\ calls[2].text # calls[2].raw
    /\ FixBulletFormat(calls[2].text) # calls[2].text

----------------------------------------------------------------------------
(* Marker-only lines                                                       *)

\* the line is a marker with nothing but whitespace around it
MarkerOnly(line) ==
    \E m \in 1..Len(line) :
        /\ IsMarker(line[m])
        /\ \A k \in 1..Len(line) : k # m => IsSpace(line[k])

\* C21: a line that is only a marker, with nothing but whitespace before and
\* after it, passes through the bullet stage unchanged.
C21_MarkerOnlyLinesUnchanged ==
    stage = "bullets" =>
        LET before == SplitLines(prev)
            after == SplitLines(text)
        IN  \A k \in 1..Len(before) :
                MarkerOnly(before[k]) => (k <= Len(after) /\ after[k] = before[k])

----------------------------------------------------------------------------
(* No double replacement in _fix_common_errors                             *)

\* pattern k of patterns_to_fix has a match somewhere in t
Candidate(k, t) == \E i \in 1..Len(t) : MatchEnd(patterns_to_fix[k], t, i) > 0

\* C22: the error stage never replaces twice: no pattern matches the text
\* its own substitution left, the output holds no match of any of the three
\* patterns (so no word-bounded letter, separators, 'xL'), and the stage
\* applied to its output changes nothing.
C22_NoDoubleReplace ==
    stage = "errors" =>
        /\ \A k \in 1..Len(patterns_to_fix) :
              ~Candidate(k, SubAll(patterns_to_fix, k, prev))
        /\ \A k \in 1..Len(patterns_to_fix) : ~Candidate(k, text)
        /\ FixCommonErrors(text) = text

\* a match of the second pattern overlaps a later match of the third
C22_Witness ==
    /\ stage = "errors"
    /\ text # prev
    /\ \E i \in 1..Len(prev) :
          \E j \in (i + 1)..Len(prev) :
              /\ MatchEnd(patterns_to_fix[2], prev, i) > j
              /\ MatchEnd(patterns_to_fix[3], prev, j) > 0

----------------------------------------------------------------------------
(* Tokens handed out by get_valid_token                                    *)

\* C23: get_valid_token for a user with a row.  When the recorded expiry is
\* at or within five minutes of now, it either returns a newly issued token
\* (never the stored one) after writing it, with its expiry, to the user's
\* row and to no other, or raises and leaves the table as it was.  When the
\* expiry is more than five minutes away it returns the stored token, asks
\* Microsoft for nothing and writes nothing.
C23_StoredTokenOnlyWhenFresh ==
    [][(auth'.op = "get_valid_token" /\ auth'.user \in DOMAIN user_auth) =>
          LET user == auth'.user
              row == user_auth[user]
          IN  IF row.token_expires_at <= now + Buffer
              THEN \/ /\ auth'.outcome = "returned"
                      /\ issued' = issued + 1
                      /\ auth'.token = issued'
                      /\ auth'.token # row.access_token
                      /\ DOMAIN user_auth' = DOMAIN user_auth
                      /\ user_auth'[user].access_token = auth'.token
                      /\ user_auth'[user].refresh_token \in {row.refresh_token, issued'}
                      /\ user_auth'[user].token_expires_at \in {now + e : e \in ExpiresIn}
                      /\ \A other \in DOMAIN user_auth \ {user} :
                            user_auth'[other] = user_auth[other]
                   \/ /\ auth'.outcome = "raised"
                      /\ user_auth' = user_auth
              ELSE /\ auth'.outcome = "returned"
                   /\ auth'.token = row.access_token
                   /\ user_auth' = user_auth
                   /\ issued' = issued]_vars

\* a refresh has just been returned: the row's expiry is inside the buffer,
\* which the stored-token path never returns on
C23_Witness ==
    /\ auth.op = "get_valid_token"
    /\ auth.outcome = "returned"
    /\ auth.user \in DOMAIN user_auth
    /\ user_auth[auth.user].access_token = auth.token
    /\ user_auth[auth.user].token_expires_at <= now + Buffer
    /\ user_auth[auth.user].refresh_token # auth.token
    /\ Cardinality(DOMAIN user_auth) = 2

\* C24: for a user who has a row, and with Graph answering, the drafts
\* endpoint returns status 'success'.
C24_DraftsListedForStoredToken ==
    [][(auth'.op = "list_drafts" /\ auth'.user \in DOMAIN user_auth /\ auth'.fault = "none")
          => auth'.outcome = "success"]_vars

----------------------------------------------------------------------------
(* Uploads that are not PDFs                                               *)

----------------------------------------------------------------------------
(* What decides the signature                                              *)

\* the text a pass of the pipeline started from
PassInput == IF Len(outs) <= 1 THEN raw ELSE outs[Len(outs) - 1]

\* C26: the first three stages neither create nor destroy an occurrence of
\* 'michael' (any case), so a pass appends the signature exactly when the
\* text it started from holds none, and otherwise returns what the bullet
\* stage produced.
C26_SignatureDecidedByRawText ==
    /\ stage \in {"errors", "headers", "bullets"} =>
          (ContainsCI(text, Michael) <=> ContainsCI(prev, Michael))
    /\ pc = "returned" =>
          /\ SignatureAppended(prev, text) <=> ~ContainsCI(PassInput, Michael)
          /\ ContainsCI(PassInput, Michael) => text = prev

\* both outcomes after stages that changed the text: a first pass that
\* appended, a second pass that did not
C26_Witness ==
    /\ pc = "returned"
    /\ Len(outs) = 2
    /\ ~ContainsCI(raw, Michael)
    /\ FixBulletFormat(FormatSectionHeaders(FixCommonErrors(raw))) # raw
    /\ SignatureAppended(FixBulletFormat(FormatSectionHeaders(FixCommonErrors(raw))), outs[1])
    /\ text = prev
    /\ ContainsCI(text, Michael)

----------------------------------------------------------------------------
(* The extracted text is never blank                                       *)

\* C27: whatever the pages hold, blank pages included, the text a finished
\* extraction returns holds 'michael' and so is not blank: an upload whose
\* steps all succeed is never answered with the 'no text' rejection, it
\* stores the note and answers 200.
C27_ExtractedTextNeverBlank ==
    [][(request'.op = "upload" /\ request'.fault = "none") =>
          /\ response'.status = 200
          /\ response'.note_id \in DOMAIN notes' \ DOMAIN notes
          /\ LET stored == notes'[response'.note_id].content
             IN  /\ stored = ExtractedText(request'.pages)
                 /\ ContainsCI(stored, Michael)
                 /\ Strip(stored) # << >>]_vars

\* a document of two blank pages has been uploaded and stored
C27_Witness ==
    /\ request.op = "upload"
    /\ request.fault = "none"
    /\ Len(request.pages) = 2
    /\ \A k \in 1..Len(request.pages) : Strip(request.pages[k]) = << >>
    /\ response.status = 200
    /\ response.note_id \in DOMAIN notes

----------------------------------------------------------------------------
(* Newlines through _format_section_headers                                *)

\* the text the inner loop holds for keyword h when it comes to pattern k
BeforePattern(h, k, t) ==
    FormatHeader(section_headers[h], k - 1, FormatHeaders(1, h - 1, t))

\* the patterns rf'\n({header}):' and rf'\n({header})\n'
NewlineKinds == {"NewlineColon", "NewlineAlone"}

\* C28: the header stage removes no newline and keeps the number of lines:
\* when the loop comes to a pattern that begins with a newline, either the
\* keyword is already wrapped and the pattern is skipped, or the pattern
\* matches nowhere.
C28_NewlinesKept ==
    stage = "headers" =>
        /\ Cardinality(NewlinePositions(text)) = Cardinality(NewlinePositions(prev))
        /\ Len(SplitLines(text)) = Len(SplitLines(prev))
        /\ \A h \in 1..Len(section_headers) :
              \A k \in 1..4 :
                  LET header == section_headers[h]
                      pat == HeaderPatterns(header)[k]
                      u == BeforePattern(h, k, prev)
                  IN  pat.kind \in NewlineKinds =>
                          \/ AlreadyWrapped(header, u)
                          \/ \A i \in 1..Len(u) : MatchEnd(pat, u, i) = 0

\* a text in which a newline pattern has a match has gone through the stage
C28_Witness ==
    /\ stage = "headers"
    /\ text # prev
    /\ \E i \in 1..Len(prev) : MatchNewlineColon(prev, i, Personal) > 0
    /\ \E i \in 1..Len(text) : MatchExact(text, i, NL \o Stars \o Personal \o Stars)

----------------------------------------------------------------------------
(* Headers and bullets in either order                                     *)

\* C29: on every text the pipeline is about to format, the header stage
\* followed by the bullet stage gives the text the bullet stage followed by
\* the header stage gives.
C29_HeadersBulletsCommute ==
    pc \in {"combined", "errors_fixed"} =>
        FixBulletFormat(FormatSectionHeaders(text))
            = FormatSectionHeaders(FixBulletFormat(text))

\* a text both stages rewrite
C29_Witness ==
    /\ pc = "errors_fixed"
    /\ FormatSectionHeaders(text) # text
    /\ FixBulletFormat(text) # text
    /\ FixBulletFormat(FormatSectionHeaders(text)) # FormatSectionHeaders(text)
    /\ FixBulletFormat(FormatSectionHeaders(text))
            = FormatSectionHeaders(FixBulletFormat(text))

----------------------------------------------------------------------------
(* The uploads directory and the rows                                      *)

\* C30: after any sequence of requests every file in the uploads directory is
\* the file_path of exactly one note, and the file every note names is in
\* the directory.
C30_FilesAndNotesAgree ==
    /\ \A p \in uploads :
          Cardinality({i \in DOMAIN notes : notes[i].file_path = p}) = 1
    /\ \A i \in DOMAIN notes : notes[i].file_path \in uploads

====
